---------------------------- MODULE Spec2Model ----------------------------
(***************************************************************************)
(* smart-commit (src/main.go): stage, summarise the staged diff, ask the   *)
(* Copilot CLI for a commit message (or synthesise one), normalise it to   *)
(* the conventional-commit format, commit and push.                        *)
(*                                                                         *)
(* A Go string is a sequence of bytes; it is modelled as a sequence of     *)
(* byte values (0..255), so that slicing a string by byte index and the    *)
(* UTF-8 handling of the strings package are what they are in Go.          *)
(***************************************************************************)
EXTENDS Integers, Sequences, FiniteSets, TLC

VARIABLES
    pc,         \* control location of main (or of the function under study)
    exitCode,   \* -1 while running, else the process's exit status
    calls,      \* the external operations invoked so far, in order
    failed,     \* the external operations that returned an error
    changes,    \* the diff summary (main.go:27)
    message,    \* the candidate message: commitMsg before main.go:47
    commitMsg,  \* the normalised message: commitMsg after main.go:47
    commitArg,  \* the message handed to 'git commit -m'
    tempFile,   \* the prompt file of generateCommitMessage
    oracle,     \* the 'gh copilot suggest' process
    records,    \* the lines a diff summary was assembled from
    files,      \* result of extractChangedFiles
    ctype       \* result of determineCommitType

vars == <<pc, exitCode, calls, failed, changes, message, commitMsg,
          commitArg, tempFile, oracle, records, files, ctype>>

(***************************************************************************)
(* Bounds of the explored inputs.                                          *)
(***************************************************************************)
MaxTail == 3    \* free bytes appended to a message head
MaxWords == 3   \* tokens of a diff text given to the classifier
MaxLines == 6   \* lines of a diff summary given to the fallback synthesizer

None == <<-1>>  \* no value yet (no Go string holds the byte -1)

(***************************************************************************)
(* The strings package, as far as main.go uses it.                         *)
(***************************************************************************)
Min(S) == CHOOSE x \in S : \A y \in S : x <= y
Max(S) == CHOOSE x \in S : \A y \in S : x >= y

\* s[from:] with a 0-based byte offset
Drop(s, n) == SubSeq(s, n + 1, Len(s))

HasPrefix(s, p) == Len(s) >= Len(p) /\ SubSeq(s, 1, Len(p)) = p

\* strings.Contains(s, sub)
Contains(s, sub) ==
    \E i \in 0..(Len(s) - Len(sub)) : SubSeq(s, i + 1, i + Len(sub)) = sub

\* strings.Index(s, string(b)) for a one-byte separator: 0-based, -1 if absent
Index(s, b) ==
    LET I == {i \in 1..Len(s) : s[i] = b}
    IN  IF I = {} THEN -1 ELSE Min(I) - 1

\* unicode.IsSpace on the bytes below 0x80 (strings.asciiSpace)
IsSpace(b) == b \in {9, 10, 11, 12, 13, 32}

\* strings.TrimSpace.  A byte >= 0x80 of the input alphabet never starts the
\* encoding of a space (U+0085 and U+00A0 need the lead byte 0xC2).
TrimSpace(s) ==
    LET I == {i \in 1..Len(s) : ~IsSpace(s[i])}
    IN  IF I = {} THEN <<>> ELSE SubSeq(s, Min(I), Max(I))

\* utf8.RuneError, U+FFFD, encoded
RuneError == <<239, 191, 189>>

\* unicode.ToLower on the two-byte runes U+0080..U+00FF (lead bytes C2, C3)
LowerRune2(b1, b2) ==
    LET r == (b1 - 192) * 64 + (b2 - 128)
        l == IF r \in 192..222 /\ r # 215 THEN r + 32 ELSE r
    IN  <<192 + (l \div 64), 128 + (l % 64)>>

LowerByte(b) == IF b \in 65..90 THEN b + 32 ELSE b

\* strings.ToLower: the ASCII path maps A-Z; otherwise strings.Map decodes
\* rune by rune, and a byte that is no valid encoding is read as RuneError
\* and written back as the three bytes of U+FFFD.
RECURSIVE ToLower(_)
ToLower(s) ==
    IF s = <<>> THEN <<>>
    ELSE IF s[1] < 128 THEN <<LowerByte(s[1])>> \o ToLower(Tail(s))
    ELSE IF s[1] \in 194..195 /\ Len(s) >= 2 /\ s[2] \in 128..191
         THEN LowerRune2(s[1], s[2]) \o ToLower(Drop(s, 2))
    ELSE RuneError \o ToLower(Tail(s))

\* strings.Split(s, string(sep)) for a one-byte separator
RECURSIVE Split(_, _)
Split(s, sep) ==
    LET i == Index(s, sep)
    IN  IF i < 0 THEN <<s>>
        ELSE <<SubSeq(s, 1, i)>> \o Split(Drop(s, i + 1), sep)

\* strings.Join(elems, sep)
RECURSIVE Join(_, _)
Join(elems, sep) ==
    IF elems = <<>> THEN <<>>
    ELSE IF Len(elems) = 1 THEN elems[1]
    ELSE elems[1] \o sep \o Join(Tail(elems), sep)

(***************************************************************************)
(* enforceConventionalCommit and determineCommitType                       *)
(***************************************************************************)
\* the alternation of the pattern, main.go:69
CommitTypes == {
    <<102, 101, 97, 116>>,                      \* feat
    <<102, 105, 120>>,                          \* fix
    <<100, 111, 99, 115>>,                      \* docs
    <<115, 116, 121, 108, 101>>,                \* style
    <<114, 101, 102, 97, 99, 116, 111, 114>>,   \* refactor
    <<116, 101, 115, 116>>,                     \* test
    <<99, 104, 111, 114, 101>>,                 \* chore
    <<112, 101, 114, 102>>,                     \* perf
    <<99, 105>>,                                \* ci
    <<98, 117, 105, 108, 100>>,                 \* build
    <<114, 101, 118, 101, 114, 116>> }          \* revert

\* [a-z0-9-]
ScopeChar(b) == b \in 97..122 \/ b \in 48..57 \/ b = 45

\* ": .+" at the head of r, unanchored at its end: one byte other than \n
\* after ": " is a match
ColonTail(r) == Len(r) >= 3 /\ r[1] = 58 /\ r[2] = 32 /\ r[3] # 10

\* a pattern whose scope class lost its '-': [a-z0-9]+
ScopeThenTailNoDash(r) ==
    \/ ColonTail(r)
    \/ /\ Len(r) >= 3
       /\ r[1] = 40
       /\ \E k \in 3..Len(r) :
            /\ r[k] = 41
            /\ \A j \in 2..(k - 1) : ScopeChar(r[j]) /\ r[j] # 45
            /\ ColonTail(Drop(r, k))

\* (\([a-z0-9-]+\))? then ": .+", at the head of r
ScopeThenTail(r) ==
    \/ ColonTail(r)
    \/ /\ Len(r) >= 3
       /\ r[1] = 40
       /\ \E k \in 3..Len(r) :
            /\ r[k] = 41
            /\ \A j \in 2..(k - 1) : ScopeChar(r[j])
            /\ ColonTail(Drop(r, k))

\* conventionalFormat.MatchString(message), main.go:69-72
conventionalFormat(m) ==
    \E t \in CommitTypes : HasPrefix(m, t) /\ ScopeThenTail(Drop(m, Len(t)))

kwTest     == <<116, 101, 115, 116>>
kwTestGo   == <<95, 116, 101, 115, 116, 46, 103, 111>>      \* _test.go
kwFix      == <<102, 105, 120>>
kwBug      == <<98, 117, 103>>
kwFeat     == <<102, 101, 97, 116>>
kwAdd      == <<97, 100, 100>>
kwNew      == <<110, 101, 119>>
kwDoc      == <<100, 111, 99>>
kwReadme   == <<114, 101, 97, 100, 109, 101>>
kwRefactor == <<114, 101, 102, 97, 99, 116, 111, 114>>
kwStyle    == <<115, 116, 121, 108, 101>>
kwFormat   == <<102, 111, 114, 109, 97, 116>>
tyDocs     == <<100, 111, 99, 115>>
tyChore    == <<99, 104, 111, 114, 101>>

\* the feat rule tried before the fix rule
determineCommitTypeFeatFirst(chg) ==
    LET lowerChanges == ToLower(chg)
    IN  IF Contains(lowerChanges, kwTest) \/ Contains(lowerChanges, kwTestGo)
        THEN kwTest
        ELSE IF Contains(lowerChanges, kwFeat) \/ Contains(lowerChanges, kwAdd)
                \/ Contains(lowerChanges, kwNew)
        THEN kwFeat
        ELSE IF Contains(lowerChanges, kwFix) \/ Contains(lowerChanges, kwBug)
        THEN kwFix
        ELSE IF Contains(lowerChanges, kwDoc) \/ Contains(lowerChanges, kwReadme)
        THEN tyDocs
        ELSE IF Contains(lowerChanges, kwRefactor)
        THEN kwRefactor
        ELSE IF Contains(lowerChanges, kwStyle) \/ Contains(lowerChanges, kwFormat)
        THEN kwStyle
        ELSE tyChore

\* the keywords searched in the text as given, not lower-cased
determineCommitTypeNoLower(chg) ==
    LET lowerChanges == chg
    IN  IF Contains(lowerChanges, kwTest) \/ Contains(lowerChanges, kwTestGo)
        THEN kwTest
        ELSE IF Contains(lowerChanges, kwFix) \/ Contains(lowerChanges, kwBug)
        THEN kwFix
        ELSE IF Contains(lowerChanges, kwFeat) \/ Contains(lowerChanges, kwAdd)
                \/ Contains(lowerChanges, kwNew)
        THEN kwFeat
        ELSE IF Contains(lowerChanges, kwDoc) \/ Contains(lowerChanges, kwReadme)
        THEN tyDocs
        ELSE IF Contains(lowerChanges, kwRefactor)
        THEN kwRefactor
        ELSE IF Contains(lowerChanges, kwStyle) \/ Contains(lowerChanges, kwFormat)
        THEN kwStyle
        ELSE tyChore

\* determineCommitType, main.go:95-118
determineCommitType(chg) ==
    LET lowerChanges == ToLower(chg)
    IN  IF Contains(lowerChanges, kwTest) \/ Contains(lowerChanges, kwTestGo)
        THEN kwTest
        ELSE IF Contains(lowerChanges, kwFix) \/ Contains(lowerChanges, kwBug)
        THEN kwFix
        ELSE IF Contains(lowerChanges, kwFeat) \/ Contains(lowerChanges, kwAdd)
                \/ Contains(lowerChanges, kwNew)
        THEN kwFeat
        ELSE IF Contains(lowerChanges, kwDoc) \/ Contains(lowerChanges, kwReadme)
        THEN tyDocs
        ELSE IF Contains(lowerChanges, kwRefactor)
        THEN kwRefactor
        ELSE IF Contains(lowerChanges, kwStyle) \/ Contains(lowerChanges, kwFormat)
        THEN kwStyle
        ELSE tyChore

ColonSpace == <<58, 32>>

\* enforceConventionalCommit, main.go:67-92
enforceConventionalCommit(m, chg) ==
    IF conventionalFormat(m) THEN m
    ELSE
        LET commitType == determineCommitType(chg)
            idx == Index(m, 46)
            sentence == IF idx > 0 THEN SubSeq(m, 1, idx) ELSE m
            description == TrimSpace(sentence)
            lowered ==
                IF Len(description) > 0
                THEN ToLower(SubSeq(description, 1, 1)) \o Drop(description, 1)
                ELSE description
        IN  commitType \o ColonSpace \o lowered

(***************************************************************************)
(* The fallback message, main.go:42-43 and extractChangedFiles             *)
(***************************************************************************)
MaxFiles == 5

ChangesTo == <<99, 104, 111, 114, 101, 58, 32, 99, 104, 97, 110, 103, 101,
               115, 32, 116, 111, 32>>      \* "chore: changes to "
CommaSpace == <<44, 32>>

RECURSIVE ExtractLoop(_)
ExtractLoop(lines) ==
    IF lines = <<>> THEN <<>>
    ELSE LET line == Head(lines)
             parts == Split(line, 9)
         IN  IF line = <<>> THEN ExtractLoop(Tail(lines))
             ELSE IF Len(parts) >= 2
                  THEN <<parts[2]>> \o ExtractLoop(Tail(lines))
                  ELSE ExtractLoop(Tail(lines))

extractChangedFiles(chg) == ExtractLoop(Split(chg, 10))

min(a, b) == IF a < b THEN a ELSE b

\* the file list joined whole, without the cap
FallbackMessageNoCap(chg) ==
    ChangesTo \o Join(extractChangedFiles(chg), CommaSpace)

\* main.go:42-43
FallbackMessage(chg) ==
    LET changedFiles == extractChangedFiles(chg)
    IN  ChangesTo \o
        Join(SubSeq(changedFiles, 1, min(Len(changedFiles), MaxFiles)), CommaSpace)


(***************************************************************************)
(* Input domains of the three string functions studied on their own.       *)
(***************************************************************************)
SeqsUpTo(S, n) == UNION {[1..k -> S] : k \in 0..n}

\* Message heads: what precedes the free bytes of a candidate message.
MessageHeads == {
    <<>>,
    <<102, 105, 120>>,                                  \* fix
    <<102, 105, 120, 58, 32>>,                          \* fix: 
    <<70, 105, 120, 58, 32>>,                           \* Fix: 
    <<120, 102, 105, 120, 58, 32>>,                     \* xfix: 
    <<102, 101, 97, 116, 40, 117, 105, 45, 49, 41>>,    \* feat(ui-1)
    <<102, 101, 97, 116, 40, 85, 73, 41, 58, 32>>,      \* feat(UI): 
    <<99, 105, 40, 41, 58, 32>>,                        \* ci(): 
    <<100, 111, 99, 115, 40, 97, 58, 32>>,              \* docs(a: 
    <<65, 100, 100, 101, 100, 32>> }                    \* Added 

\* colon, space, a, A, period, newline, and the two bytes of U+00C9 (E acute)
TailAlphabet == {58, 32, 97, 65, 46, 10, 195, 137}

\* the oracle prints text: the bytes 0xC3 0x89 only as the pair they form
ValidUTF8(t) ==
    /\ \A i \in 1..Len(t) : t[i] = 195 => (i < Len(t) /\ t[i + 1] = 137)
    /\ \A i \in 1..Len(t) : t[i] = 137 => (i > 1 /\ t[i - 1] = 195)

MessageInputs ==
    {h \o t : h \in MessageHeads,
              t \in {u \in SeqsUpTo(TailAlphabet, MaxTail) : ValidUTF8(u)}}

SampleChanges == {
    <<>>,
    <<77, 9, 109, 97, 105, 110, 46, 103, 111, 10>>,     \* M\tmain.go\n
    <<77, 9, 102, 105, 120, 46, 103, 111, 10,
      65, 9, 102, 101, 97, 116, 46, 103, 111, 10>> }    \* M\tfix.go\nA\tfeat.go\n

\* Diff texts for the classifier: up to MaxWords tokens, concatenated.
TextTokens == <<
    <<77, 9>>,                                  \* M\t
    <<10>>,                                     \* \n
    <<120>>,                                    \* x
    <<116, 101, 115, 116>>,                     \* test
    <<95, 84, 101, 115, 116, 46, 103, 111>>,    \* _Test.go
    <<102, 105, 120>>,                          \* fix
    <<66, 85, 71>>,                             \* BUG
    <<102, 101, 97, 116>>,                      \* feat
    <<65, 100, 100>>,                           \* Add
    <<110, 101, 119>>,                          \* new
    <<100, 111, 99>>,                           \* doc
    <<82, 69, 65, 68, 77, 69>>,                 \* README
    <<114, 101, 102, 97, 99, 116, 111, 114>>,   \* refactor
    <<83, 116, 121, 108, 101>>,                 \* Style
    <<102, 111, 114, 109, 97, 116>>,            \* format
    <<102, 105>>,                               \* fi
    <<195, 137>> >>                             \* U+00C9

RECURSIVE Concat(_)
Concat(ss) == IF ss = <<>> THEN <<>> ELSE Head(ss) \o Concat(Tail(ss))

DiffTexts ==
    {Concat([i \in 1..Len(w) |-> TextTokens[w[i]]]) :
        w \in SeqsUpTo(1..Len(TextTokens), MaxWords)}

\* Diff summaries for the fallback: lines given as their tab-separated fields.
LineKinds == {
    <<<<>>>>,                                           \* an empty line
    <<<<77>>>>,                                         \* M
    <<<<77>>, <<97, 46, 103, 111>>>>,                   \* M\ta.go
    <<<<82>>, <<98>>, <<99>>>> }                        \* R\tb\tc

Newline == <<10>>
Tab == <<9>>

Render(recs, trailing) ==
    Join([i \in 1..Len(recs) |-> Join(recs[i], Tab)], Newline)
        \o (IF trailing THEN Newline ELSE <<>>)

Idle ==
    /\ exitCode = -1 /\ calls = <<>> /\ failed = {}
    /\ commitArg = None /\ tempFile = "none" /\ oracle = "idle"

IdleUnchanged == UNCHANGED <<exitCode, calls, failed, commitArg, tempFile, oracle>>

(***************************************************************************)
(* enforceConventionalCommit on its own                                    *)
(***************************************************************************)
InitEnforce ==
    /\ pc = "enforce_in"
    /\ message \in MessageInputs
    /\ changes \in SampleChanges
    /\ commitMsg = None /\ records = <<>> /\ files = <<>> /\ ctype = None
    /\ Idle

ApplyEnforce ==
    /\ pc = "enforce_in"
    /\ commitMsg' = enforceConventionalCommit(message, changes)
    /\ pc' = "enforce_out"
    /\ UNCHANGED <<message, changes, records, files, ctype>>
    /\ IdleUnchanged

SpecEnforce == InitEnforce /\ [][ApplyEnforce]_vars

(***************************************************************************)
(* determineCommitType on its own                                          *)
(***************************************************************************)
InitType ==
    /\ pc = "type_in"
    /\ changes \in DiffTexts
    /\ message = None /\ commitMsg = None /\ records = <<>> /\ files = <<>>
    /\ ctype = None
    /\ Idle

ApplyType ==
    /\ pc = "type_in"
    /\ ctype' = determineCommitType(changes)
    /\ pc' = "type_out"
    /\ UNCHANGED <<message, changes, commitMsg, records, files>>
    /\ IdleUnchanged

SpecType == InitType /\ [][ApplyType]_vars

(***************************************************************************)
(* The fallback synthesizer on its own                                     *)
(***************************************************************************)
InitFallback ==
    /\ pc = "fallback_in"
    /\ records \in SeqsUpTo(LineKinds, MaxLines)
    /\ \E trailing \in BOOLEAN : changes = Render(records, trailing)
    /\ message = None /\ commitMsg = None /\ files = <<>> /\ ctype = None
    /\ Idle

ApplyFallback ==
    /\ pc = "fallback_in"
    /\ files' = extractChangedFiles(changes)
    /\ message' = FallbackMessage(changes)
    /\ pc' = "fallback_out"
    /\ UNCHANGED <<changes, commitMsg, records, ctype>>
    /\ IdleUnchanged

SpecFallback == InitFallback /\ [][ApplyFallback]_vars

(***************************************************************************)
(* main: one run of the program.  Each external command is a step whose    *)
(* outcome (success or failure, and its output) the environment chooses.   *)
(***************************************************************************)
\* what 'git diff --cached --name-status' may print
DiffOutputs == SampleChanges \cup
    { Render([i \in 1..6 |-> <<<<77>>, <<97, 46, 103, 111>>>>], TRUE) }

\* what 'gh copilot suggest' may print
OracleOutputs == {
    <<>>,
    <<102, 105, 120, 58, 32, 97, 10>>,                          \* fix: a\n
    <<65, 100, 100, 101, 100, 32, 88, 46, 89, 10>>,             \* Added X.Y\n
    <<102, 101, 97, 116, 40, 117, 105, 41, 58, 32, 98, 10, 10,
      109, 111, 114, 101>>,                                     \* feat(ui): b\n\nmore
    <<32, 72, 105, 10, 121, 111, 117, 32>>,                     \*  Hi\nyou 
    <<195, 137, 108, 97, 110>> }                                \* U+00C9 lan

\* fmt.Fprintf(os.Stderr, ...); os.Exit(1)
Fatal(op) ==
    /\ pc' = "exited"
    /\ exitCode' = 1
    /\ failed' = failed \cup {op}

Init ==
    /\ pc = "preflight"
    /\ exitCode = -1
    /\ calls = <<>>
    /\ failed = {}
    /\ changes = None
    /\ message = None
    /\ commitMsg = None
    /\ commitArg = None
    /\ tempFile = "none"
    /\ oracle = "idle"
    /\ records = <<>> /\ files = <<>> /\ ctype = None

\* the diagnostic printed, but no os.Exit
CheckCopilotCLINoExit(ok) ==
    /\ pc = "preflight"
    /\ calls' = Append(calls, "preflight")
    /\ pc' = "stage"
    /\ failed' = IF ok THEN failed ELSE failed \cup {"preflight"}
    /\ UNCHANGED <<exitCode, changes, message, commitMsg, commitArg, tempFile,
                   oracle, records, files, ctype>>

\* main.go:14-17, checkCopilotCLI
CheckCopilotCLI(ok) ==
    /\ pc = "preflight"
    /\ calls' = Append(calls, "preflight")
    /\ IF ok THEN pc' = "stage" /\ UNCHANGED <<exitCode, failed>>
             ELSE Fatal("preflight")
    /\ UNCHANGED <<changes, message, commitMsg, commitArg, tempFile, oracle,
                   records, files, ctype>>

\* main.go:20-24, git add .
GitAdd(ok) ==
    /\ pc = "stage"
    /\ calls' = Append(calls, "stage")
    /\ IF ok THEN pc' = "diff" /\ UNCHANGED <<exitCode, failed>>
             ELSE Fatal("stage")
    /\ UNCHANGED <<changes, message, commitMsg, commitArg, tempFile, oracle,
                   records, files, ctype>>

\* main.go:27-34, git diff --cached --name-status
GitDiff(ok, out) ==
    /\ pc = "diff"
    /\ calls' = Append(calls, "diff")
    /\ IF ok THEN /\ pc' = "gen_create"
                  /\ changes' = out
                  /\ UNCHANGED <<exitCode, failed>>
             ELSE /\ Fatal("diff")
                  /\ UNCHANGED changes
    /\ UNCHANGED <<message, commitMsg, commitArg, tempFile, oracle,
                   records, files, ctype>>

\* generateCommitMessage, main.go:153-157: os.CreateTemp, defer os.Remove
CreateTemp(ok) ==
    /\ pc = "gen_create"
    /\ IF ok THEN /\ tempFile' = "exists"
                  /\ pc' = "gen_write"
                  /\ UNCHANGED failed
             ELSE /\ pc' = "fallback"
                  /\ failed' = failed \cup {"createtemp"}
                  /\ UNCHANGED tempFile
    /\ UNCHANGED <<exitCode, calls, changes, message, commitMsg, commitArg,
                   oracle, records, files, ctype>>

\* os.Remove deferred only after the write: a failed write leaves the file
WriteStringLeak(ok) ==
    /\ pc = "gen_write"
    /\ IF ok THEN /\ pc' = "gen_start"
                  /\ UNCHANGED failed
             ELSE /\ pc' = "fallback"
                  /\ failed' = failed \cup {"write"}
    /\ UNCHANGED <<exitCode, calls, changes, message, commitMsg, commitArg,
                   tempFile, oracle, records, files, ctype>>

\* main.go:160-163: WriteString, Close; an error returns through the defer
WriteString(ok) ==
    /\ pc = "gen_write"
    /\ IF ok THEN /\ pc' = "gen_start"
                  /\ UNCHANGED <<failed, tempFile>>
             ELSE /\ pc' = "fallback"
                  /\ failed' = failed \cup {"write"}
                  /\ tempFile' = "removed"
    /\ UNCHANGED <<exitCode, calls, changes, message, commitMsg, commitArg,
                   oracle, records, files, ctype>>

\* main.go:166-171: cmd.Run starts sh -c "cat <file> | gh copilot suggest"
StartOracle(ok) ==
    /\ pc = "gen_start"
    /\ calls' = Append(calls, "oracle")
    /\ IF ok THEN /\ oracle' = "running"
                  /\ pc' = "gen_wait"
                  /\ UNCHANGED <<failed, tempFile>>
             ELSE /\ pc' = "fallback"
                  /\ failed' = failed \cup {"oracle"}
                  /\ tempFile' = "removed"
                  /\ UNCHANGED oracle
    /\ UNCHANGED <<exitCode, changes, message, commitMsg, commitArg,
                   records, files, ctype>>

\* an oracle error treated like the other errors of main: fatal
WaitOracleFatal(ok, out) ==
    /\ pc = "gen_wait"
    /\ oracle' = "finished"
    /\ tempFile' = "removed"
    /\ IF ok THEN /\ message' = TrimSpace(out)
                  /\ pc' = "enforce"
                  /\ UNCHANGED <<failed, exitCode>>
             ELSE /\ Fatal("oracle")
                  /\ UNCHANGED message
    /\ UNCHANGED <<calls, changes, commitMsg, commitArg, records, files, ctype>>

\* main.go:171-176: cmd.Run returns once the process has ended; both returns
\* run the deferred os.Remove
WaitOracle(ok, out) ==
    /\ pc = "gen_wait"
    /\ oracle' = "finished"
    /\ tempFile' = "removed"
    /\ IF ok THEN /\ message' = TrimSpace(out)
                  /\ pc' = "enforce"
                  /\ UNCHANGED failed
             ELSE /\ pc' = "fallback"
                  /\ failed' = failed \cup {"oracle"}
                  /\ UNCHANGED message
    /\ UNCHANGED <<exitCode, calls, changes, commitMsg, commitArg,
                   records, files, ctype>>

\* main.go:39-44
Fallback ==
    /\ pc = "fallback"
    /\ message' = FallbackMessage(changes)
    /\ pc' = "enforce"
    /\ UNCHANGED <<exitCode, calls, failed, changes, commitMsg, commitArg,
                   tempFile, oracle, records, files, ctype>>

\* main.go:47
Enforce ==
    /\ pc = "enforce"
    /\ commitMsg' = enforceConventionalCommit(message, changes)
    /\ pc' = "commit"
    /\ UNCHANGED <<exitCode, calls, failed, changes, message, commitArg,
                   tempFile, oracle, records, files, ctype>>

\* main.go:50-55, git commit -m commitMsg
GitCommit(ok) ==
    /\ pc = "commit"
    /\ calls' = Append(calls, "commit")
    /\ commitArg' = commitMsg
    /\ IF ok THEN pc' = "push" /\ UNCHANGED <<exitCode, failed>>
             ELSE Fatal("commit")
    /\ UNCHANGED <<changes, message, commitMsg, tempFile, oracle,
                   records, files, ctype>>

\* the error of git push dropped: the run ends as a success
GitPushIgnoreError(ok) ==
    /\ pc = "push"
    /\ calls' = Append(calls, "push")
    /\ pc' = "exited"
    /\ exitCode' = 0
    /\ failed' = IF ok THEN failed ELSE failed \cup {"push"}
    /\ UNCHANGED <<changes, message, commitMsg, commitArg, tempFile, oracle,
                   records, files, ctype>>

\* main.go:58-64, git push; main returns after a successful push
GitPush(ok) ==
    /\ pc = "push"
    /\ calls' = Append(calls, "push")
    /\ IF ok THEN pc' = "exited" /\ exitCode' = 0 /\ UNCHANGED failed
             ELSE Fatal("push")
    /\ UNCHANGED <<changes, message, commitMsg, commitArg, tempFile, oracle,
                   records, files, ctype>>

Next ==
    \/ \E ok \in BOOLEAN : CheckCopilotCLI(ok)
    \/ \E ok \in BOOLEAN : GitAdd(ok)
    \/ \E ok \in BOOLEAN, out \in DiffOutputs : GitDiff(ok, out)
    \/ \E ok \in BOOLEAN : CreateTemp(ok)
    \/ \E ok \in BOOLEAN : WriteString(ok)
    \/ \E ok \in BOOLEAN : StartOracle(ok)
    \/ \E ok \in BOOLEAN, out \in OracleOutputs : WaitOracle(ok, out)
    \/ Fallback
    \/ Enforce
    \/ \E ok \in BOOLEAN : GitCommit(ok)
    \/ \E ok \in BOOLEAN : GitPush(ok)

Spec == Init /\ [][Next]_vars

(***************************************************************************)
(* The stated contract, in its own terms.                                  *)
(***************************************************************************)
\* ": .+$": after ": ", at least one byte and no newline up to the end
GrammarTail(r) ==
    /\ Len(r) >= 3 /\ r[1] = 58 /\ r[2] = 32
    /\ \A i \in 3..Len(r) : r[i] # 10

\* ^(feat|...|revert)(\([a-z0-9-]+\))?: .+$
MatchesGrammar(m) ==
    \E t \in CommitTypes :
        /\ HasPrefix(m, t)
        /\ LET r == Drop(m, Len(t))
           IN  \/ GrammarTail(r)
               \/ \E k \in 3..Len(r) :
                    /\ r[1] = 40 /\ r[k] = 41
                    /\ \A j \in 2..(k - 1) : ScopeChar(r[j])
                    /\ GrammarTail(Drop(r, k))

\* the first character of d lower-cased, the rest unchanged
LowerFirstCharacter(d) ==
    IF d = <<>> THEN d
    ELSE IF d[1] < 128 THEN <<LowerByte(d[1])>> \o Tail(d)
    ELSE IF d[1] \in 194..195 /\ Len(d) >= 2 /\ d[2] \in 128..191
         THEN LowerRune2(d[1], d[2]) \o Drop(d, 2)
    ELSE d

\* the description the contract derives from a message
StatedDescription(m) ==
    LET firstDot == {i \in 1..Len(m) : m[i] = 46}
        sentence == IF firstDot # {} /\ Min(firstDot) > 1
                    THEN SubSeq(m, 1, Min(firstDot) - 1) ELSE m
    IN  LowerFirstCharacter(TrimSpace(sentence))

\* the rule table of the classifier: keywords, then the type they give
TypeRules == <<
    <<{kwTest, kwTestGo}, kwTest>>,
    <<{kwFix, kwBug}, kwFix>>,
    <<{kwFeat, kwAdd, kwNew}, kwFeat>>,
    <<{kwDoc, kwReadme}, tyDocs>>,
    <<{kwRefactor}, kwRefactor>>,
    <<{kwStyle, kwFormat}, kwStyle>> >>

FirstRuleType(text) ==
    LET low == ToLower(text)
        hits == {i \in 1..Len(TypeRules) :
                    \E k \in TypeRules[i][1] : Contains(low, k)}
    IN  IF hits = {} THEN tyChore ELSE TypeRules[Min(hits)][2]

\* the second field of every line that has at least two fields, in order
RECURSIVE StatedPaths(_)
StatedPaths(recs) ==
    IF recs = <<>> THEN <<>>
    ELSE IF Len(Head(recs)) >= 2
         THEN <<Head(recs)[2]>> \o StatedPaths(Tail(recs))
         ELSE StatedPaths(Tail(recs))

Range(f) == {f[i] : i \in DOMAIN f}

(***************************************************************************)
(* Claims                                                                  *)
(***************************************************************************)
\* C1: for every message that does not match the grammar, and every diff
\* summary, the result of enforceConventionalCommit matches the grammar.
C1_OutputMatchesGrammar ==
    (pc = "enforce_out" /\ ~MatchesGrammar(message)) => MatchesGrammar(commitMsg)

\* C2: a message that already matches the grammar is returned unchanged,
\* byte for byte and scope included, whatever the diff summary is.
C2_PassThrough ==
    (pc = "enforce_out" /\ MatchesGrammar(message)) =>
        /\ commitMsg = message
        /\ \A c \in SampleChanges : enforceConventionalCommit(message, c) = commitMsg

C2_Witness ==
    /\ pc = "enforce_out"
    /\ MatchesGrammar(message)
    /\ Contains(message, <<45, 49, 41>>)
    /\ determineCommitType(changes) = kwFix
    /\ commitMsg = message

\* C8: for every message that does not match the grammar the result is
\* "<type>: <description>": the classifier's type for the diff summary, and
\* the message cut before its first '.' (when at an index > 0), trimmed,
\* with only its first character lower-cased.
C8_RewriteAsStated ==
    (pc = "enforce_out" /\ ~MatchesGrammar(message)) =>
        commitMsg = FirstRuleType(changes) \o ColonSpace \o StatedDescription(message)

\* C6: determineCommitType returns the type of the first rule of the table
\* whose keyword occurs in the lower-cased text, and chore when none does;
\* the empty diff summary yields chore.
C6_FirstRuleWins ==
    pc = "type_out" =>
        /\ ctype = FirstRuleType(changes)
        /\ (changes = <<>> => ctype = tyChore)

C6_Witness ==
    /\ pc = "type_out"
    /\ Contains(changes, <<82, 69, 65, 68, 77, 69>>)
    /\ Contains(changes, <<83, 116, 121, 108, 101>>)
    /\ ctype = tyDocs

\* C7 as stated: a text containing both "fix" and "feat" is typed fix.
C7_FixOverFeat ==
    (pc = "type_out" /\ Contains(changes, kwFix) /\ Contains(changes, kwFeat))
        => ctype = kwFix

\* C7 amended: a text containing both "fix" and "feat" is typed fix unless
\* its lower-cased form contains "test", and is then typed test; it is
\* never typed feat.
C7_FixOverFeatUnlessTest ==
    (pc = "type_out" /\ Contains(changes, kwFix) /\ Contains(changes, kwFeat))
        => ctype = (IF Contains(ToLower(changes), kwTest) THEN kwTest ELSE kwFix)

C7_Witness ==
    /\ pc = "type_out"
    /\ Contains(changes, kwFix) /\ Contains(changes, kwFeat)
    /\ ~Contains(ToLower(changes), kwTest)
    /\ SubSeq(changes, 1, 4) = kwFeat
    /\ ctype = kwFix

\* C9: the fallback message is "chore: changes to " and the ", "-joined
\* first min(n, 5) extracted paths, the paths being the second field of
\* every non-empty line with at least two fields; the empty diff summary
\* gives no path and the message "chore: changes to ".
C9_FallbackMessage ==
    pc = "fallback_out" =>
        LET paths == StatedPaths(records)
            n == Len(paths)
        IN  /\ files = paths
            /\ message = ChangesTo \o
                 Join(SubSeq(paths, 1, IF n < 5 THEN n ELSE 5), CommaSpace)
            /\ (changes = <<>> => files = <<>> /\ message = ChangesTo)

C9_Witness ==
    /\ pc = "fallback_out"
    /\ Len(files) = 6
    /\ files[5] # files[6]
    /\ message = ChangesTo \o Join(SubSeq(files, 1, 5), CommaSpace)

OracleFailed == failed \cap {"createtemp", "write", "oracle"} # {}

C4_OracleFailureFallsBack ==
    OracleFailed =>
        /\ pc \in {"fallback", "enforce", "commit", "push", "exited"}
        /\ (pc # "exited" => exitCode = -1)
        /\ (pc = "exited" => "commit" \in Range(calls))
        /\ (pc # "fallback" => message = FallbackMessage(changes))
        /\ (pc \in {"commit", "push", "exited"} =>
                commitMsg = enforceConventionalCommit(FallbackMessage(changes), changes))
        /\ ("commit" \in Range(calls) => commitArg = commitMsg)
        /\ (pc = "exited" /\ "commit" \notin failed => "push" \in Range(calls))

C4_Witness ==
    /\ "oracle" \in failed
    /\ oracle = "finished"
    /\ "push" \in Range(calls)
    /\ Len(extractChangedFiles(changes)) > 5
    /\ commitArg = FallbackMessage(changes)

\* C5: the external operations are invoked in the order preflight, stage,
\* diff, oracle, commit, push, each at most once; a failure of stage, diff,
\* commit or push ends the run with a nonzero status, nothing invoked after
\* it; the run exits with status zero only if all four succeeded.
Rank(op) ==
    CASE op = "preflight" -> 1 [] op = "stage" -> 2 [] op = "diff" -> 3
      [] op = "oracle" -> 4 [] op = "commit" -> 5 [] op = "push" -> 6

FatalOps == {"stage", "diff", "commit", "push"}

C5_OrderAndExit ==
    /\ \A i, j \in 1..Len(calls) : i < j => Rank(calls[i]) < Rank(calls[j])
    /\ \A op \in FatalOps :
         op \in failed =>
            /\ pc = "exited" /\ exitCode = 1
            /\ calls[Len(calls)] = op
    /\ (pc = "exited") = (exitCode # -1)
    /\ exitCode \in {-1, 0, 1}
    /\ exitCode = 0 =>
            /\ FatalOps \subseteq Range(calls)
            /\ failed \cap (FatalOps \cup {"preflight"}) = {}

C5_Witness ==
    /\ pc = "exited" /\ exitCode = 1
    /\ "push" \in failed
    /\ calls = <<"preflight", "stage", "diff", "oracle", "commit", "push">>

\* C10: whenever generateCommitMessage has returned, the prompt file it
\* created no longer exists; the file exists before the oracle process is
\* started and is removed only after that process has ended.
InGenerate == pc \in {"gen_create", "gen_write", "gen_start", "gen_wait"}

=============================================================================
